---- MODULE Spec2Model ----
(***************************************************************************)
(* vid2json: a video is downsampled frame by frame to a target grid, each  *)
(* cell is averaged (and optionally quantised to a palette), every frame   *)
(* is run-length encoded, the encoded frames are concatenated and the      *)
(* result is packed into named text buckets that are written as JSON.      *)
(*                                                                         *)
(* Values are tagged records so that one sequence can hold Python ints,    *)
(* floats (exact fractions n/d in lowest terms, or NaN) and dict keys.     *)
(* Two floats computed as sum/count/255 from small integers are equal as   *)
(* IEEE doubles exactly when the fractions are equal.                      *)
(***************************************************************************)
EXTENDS Integers, Sequences, FiniteSets, TLC

\* ------------------------------------------------------------------ bounds
MaxFrames == 3
MaxSkip == 1
MaxCap == 2
MaxBuckets == 3
MaxRleLen == 3

\* source resolutions <<video_width, video_height>> of the modelled videos
VideoSizes == { <<1, 1>>, <<2, 1>>, <<2, 2>>, <<3, 2>> }
\* --width / --height arguments; <<0, 1>> is rejected by the validation
TargetSizes == { <<0, 1>>, <<1, 1>>, <<2, 1>>, <<2, 2>>, <<3, 1>> }
\* frame contents: pixel (x, y) of a frame of the given pattern
Patterns == { "checker", "red" }

\* ------------------------------------------------------------------ values
IntV(k) == [t |-> "int", n |-> k, d |-> 1, s |-> ""]
NaN == [t |-> "nan", n |-> 0, d |-> 0, s |-> ""]
StrV(str) == [t |-> "str", n |-> 0, d |-> 0, s |-> str]

RECURSIVE GCD(_, _)
GCD(a, b) == IF b = 0 THEN a ELSE GCD(b, a % b)

\* the float a / b (a >= 0, b > 0), as a fraction in lowest terms
FloatV(a, b) == LET g == GCD(a, b) IN [t |-> "float", n |-> a \div g, d |-> b \div g, s |-> ""]

\* Python ==  on two floats: NaN is equal to nothing, itself included
FloatEq(a, b) == a.t # "nan" /\ b.t # "nan" /\ a = b

RECURSIVE SumSeq(_)
SumSeq(q) == IF q = <<>> THEN 0 ELSE Head(q) + SumSeq(Tail(q))

RECURSIVE SetToSeq(_)
\* the elements of a finite set of integers, in increasing order
SetToSeq(S) == IF S = {} THEN <<>>
               ELSE LET m == CHOOSE a \in S : \A b \in S : a <= b
                    IN <<m>> \o SetToSeq(S \ {m})

\* ------------------------------------------------------------------ frames
\* OpenCV pixel: <<blue, green, red>> samples in 0..255
Pixel(p, x, y) == IF p = "red" THEN <<0, 0, 255>>
                  ELSE IF (x + y) % 2 = 0 THEN <<0, 0, 0>> ELSE <<255, 255, 255>>

\* frame[y][x] with 0-based coordinates
Frame(p, vw, vh) == [y \in 0..(vh - 1) |-> [x \in 0..(vw - 1) |-> Pixel(p, x, y)]]

\* the palette file of the model: black, white, red as RGB in [0, 1]
Palette == << <<FloatV(0, 1), FloatV(0, 1), FloatV(0, 1)>>,
              <<FloatV(1, 1), FloatV(1, 1), FloatV(1, 1)>>,
              <<FloatV(1, 1), FloatV(0, 1), FloatV(0, 1)>> >>

\* ------------------------------------------------- find_closest_color_index
\* (a - b)^2 for two fractions, as <<numerator, denominator>>
SqDiff(a, b) == LET num == a.n * b.d - b.n * a.d
                    den == a.d * b.d
                IN <<num * num, den * den>>

FracAdd(f, g) == <<f[1] * g[2] + g[1] * f[2], f[2] * g[2]>>

FracLess(f, g) == f[1] * g[2] < g[1] * f[2]

\* squared Euclidean distance of a colour to a palette entry (sqrt is monotone)
Distance(color, entry) ==
    FracAdd(FracAdd(SqDiff(color[1], entry[1]), SqDiff(color[2], entry[2])),
            SqDiff(color[3], entry[3]))

\* np.argmin: the first index of the minimum; the first NaN when there is one
find_closest_color_index(color, palette) ==
    IF color[1].t = "nan" THEN 0
    ELSE (CHOOSE i \in 1..Len(palette) :
              /\ \A j \in 1..Len(palette) :
                    ~FracLess(Distance(color, palette[j]), Distance(color, palette[i]))
              /\ \A j \in 1..(i - 1) :
                    FracLess(Distance(color, palette[i]), Distance(color, palette[j]))) - 1

\* ------------------------------------------------------------ average_region
\* the pixels of frame[y_start:y_end, x_start:x_end], row by row
RegionCells(x_start, y_start, x_end, y_end) ==
    { <<x, y>> : x \in x_start..(x_end - 1), y \in y_start..(y_end - 1) }

ChannelSum(frame, cells, c) ==
    LET ys == SetToSeq({ cell[2] : cell \in cells })
        xs == SetToSeq({ cell[1] : cell \in cells })
    IN SumSeq([i \in 1..Len(ys) |-> SumSeq([j \in 1..Len(xs) |-> frame[ys[i]][xs[j]][c]])])

\* np.mean over an empty slice is NaN (a warning, no exception)
average_region(frame, x_start, y_start, x_end, y_end) ==
    LET cells == RegionCells(x_start, y_start, x_end, y_end)
        count == Cardinality(cells)
    IN IF count = 0 THEN <<NaN, NaN, NaN>>
       ELSE << FloatV(ChannelSum(frame, cells, 3), 255 * count),
               FloatV(ChannelSum(frame, cells, 2), 255 * count),
               FloatV(ChannelSum(frame, cells, 1), 255 * count) >>

\* ---------------------------------------------------------- rle_encode_frame
\* variant: colours compared on the red channel only
IsSameRedOnly(a, b, use_pal) ==
    IF use_pal THEN a = b ELSE FloatEq(a[1], b[1])

IsSame(a, b, use_pal) ==
    IF use_pal THEN a = b
    ELSE FloatEq(a[1], b[1]) /\ FloatEq(a[2], b[2]) /\ FloatEq(a[3], b[3])

\* variant: the count of a run misses its first element
AppendRunShort(encoded, current_value, count, use_pal) ==
    (IF use_pal THEN Append(encoded, current_value) ELSE encoded \o current_value)
        \o <<IntV(count - 1)>>

\* append one run: the value (one field, or three for a colour), then the count
AppendRun(encoded, current_value, count, use_pal) ==
    (IF use_pal THEN Append(encoded, current_value) ELSE encoded \o current_value)
        \o <<IntV(count)>>

RECURSIVE RleLoop(_, _, _, _, _, _)
RleLoop(frame_data, use_pal, i, current_value, count, encoded) ==
    IF i > Len(frame_data) THEN AppendRun(encoded, current_value, count, use_pal)
    ELSE IF IsSame(frame_data[i], current_value, use_pal)
         THEN RleLoop(frame_data, use_pal, i + 1, current_value, count + 1, encoded)
         ELSE RleLoop(frame_data, use_pal, i + 1, frame_data[i], 1,
                      AppendRun(encoded, current_value, count, use_pal))

rle_encode_frame(frame_data, use_pal) ==
    IF Len(frame_data) = 0 THEN <<>>
    ELSE RleLoop(frame_data, use_pal, 2, frame_data[1], 1, <<>>)

\* ------------------------------------------------------------- frame sampler
\* int(k * (video / target)): the double product truncates to the exact floor
ScaledBound(k, video, target) == (k * video) \div target

Min(a, b) == IF a <= b THEN a ELSE b

RegionStart(k, video, target) == ScaledBound(k, video, target)

RegionEnd(k, video, target) == Min(ScaledBound(k + 1, video, target), video)

\* the Symbol of target cell (x, y)
SampleCell(frame, x, y, vw, vh, tw, th, use_pal) ==
    LET color == average_region(frame, RegionStart(x, vw, tw), RegionStart(y, vh, th),
                                RegionEnd(x, vw, tw), RegionEnd(y, vh, th))
    IN IF use_pal THEN IntV(find_closest_color_index(color, Palette)) ELSE color

\* pixel_values of one frame: row-major, y outer, x inner
SampleFrame(frame, vw, vh, tw, th, use_pal) ==
    [k \in 1..(tw * th) |->
        SampleCell(frame, (k - 1) % tw, (k - 1) \div tw, vw, vh, tw, th, use_pal)]

\* frame_count % (frameskip + 1) == 0
IsSelected(fc, skip) == fc % (skip + 1) = 0

\* variant: the cap compared with > instead of >=
CapReachedLate(pcount, cap) == cap > 0 /\ pcount > cap

\* total_exported_frames > 0 and processed_count >= total_exported_frames
CapReached(pcount, cap) == cap > 0 /\ pcount >= cap

\* --------------------------------------------------------------- py helpers
\* math.floor(a / b) for a >= 0 and b # 0
PyFloorDiv(a, b) == IF b > 0 THEN a \div b ELSE -((a + (-b) - 1) \div (-b))

\* a % b for a >= 0 and b # 0: the result takes the sign of the divisor
PyMod(a, b) == IF b > 0 THEN a % b
               ELSE LET r == a % (-b) IN IF r = 0 THEN 0 ELSE r + b

DigitChar == <<"0", "1", "2", "3", "4", "5", "6", "7", "8", "9">>

RECURSIVE Digits(_)
\* str(k) of an int k >= 0, one character per element
Digits(k) == IF k < 10 THEN <<DigitChar[k + 1]>>
             ELSE Digits(k \div 10) \o <<DigitChar[(k % 10) + 1]>>

KeyChars(str) == CASE str = "width" -> <<"w", "i", "d", "t", "h">>
                   [] str = "height" -> <<"h", "e", "i", "g", "h", "t">>
                   [] str = "frames" -> <<"f", "r", "a", "m", "e", "s">>

\* str(v) of a bucketed value: an int, or a key of the json_data dict
PyStr(v) == CASE v.t = "int" -> Digits(v.n)
              [] v.t = "str" -> KeyChars(v.s)

RECURSIVE Join(_)
\* ",".join([str(v) for v in values])
Join(values) == IF values = <<>> THEN <<>>
                ELSE IF Len(values) = 1 THEN PyStr(values[1])
                ELSE PyStr(values[1]) \o <<",">> \o Join(Tail(values))

\* f"f{str(bucket_idx)}"
BucketName(i) == <<"f">> \o Digits(i)

\* json_data is frames_data itself (a list) or the width/height/frames dict
JsonList(frames) == [dict |-> FALSE, width |-> 0, height |-> 0, frames |-> frames]

JsonDict(w, h, frames) == [dict |-> TRUE, width |-> w, height |-> h, frames |-> frames]

\* len(json_data): the length of the list, the number of keys of the dict
PyLen(j) == IF j.dict THEN 3 ELSE Len(j.frames)

\* what enumerate(json_data) yields: the elements of the list, the keys of the dict
PyIter(j) == IF j.dict THEN <<StrV("width"), StrV("height"), StrV("frames")>> ELSE j.frames

\* variant: a bucket closed when idx + 1 is a multiple of bucket_length
IsBoundaryAfter(i, blen) == PyMod(i + 1, blen) = 0 /\ i > 0

\* idx % bucket_length == 0 and idx > 0 (bucket_length # 0)
IsBoundary(i, blen) == PyMod(i, blen) = 0 /\ i > 0

\* ------------------------------------------------------------------- state
VARIABLES
    pc,                    \* position in main / process_video
    width, height,         \* args.width, args.height (target grid)
    frameskip,             \* args.frameskip
    totalframes,           \* args.totalframes (0 = unlimited)
    buckets,               \* args.buckets
    use_palette,           \* a palette was given and loaded
    video_width, video_height,
    video_frames,          \* the number of frames cap.read() yields
    frames_data, frame_count, processed_count,
    pixel_values, compressed_frame,
    progress,              \* the frame numbers of the progress lines printed
    json_data,
    formatted_json_frames, bucket_length, bucket_idx, current_bucket, idx,
    output_written         \* the output file was opened and dumped

vars == <<pc, width, height, frameskip, totalframes, buckets, use_palette,
          video_width, video_height, video_frames, frames_data, frame_count,
          processed_count, pixel_values, compressed_frame, progress, json_data,
          formatted_json_frames, bucket_length, bucket_idx, current_bucket, idx,
          output_written>>

args == <<width, height, frameskip, totalframes, buckets, use_palette>>

video == <<video_width, video_height, video_frames>>

sampler == <<frames_data, frame_count, processed_count, pixel_values,
             compressed_frame, progress>>

packer == <<formatted_json_frames, bucket_length, bucket_idx, current_bucket, idx>>

EmptyDoc == [k \in {} |-> <<>>]

Locals ==
    /\ frames_data = <<>>
    /\ frame_count = 0
    /\ processed_count = 0
    /\ pixel_values = <<>>
    /\ compressed_frame = <<>>
    /\ progress = <<>>
    /\ json_data = JsonList(<<>>)
    /\ formatted_json_frames = EmptyDoc
    /\ bucket_length = 0
    /\ bucket_idx = 0
    /\ current_bucket = <<>>
    /\ idx = 0
    /\ output_written = FALSE

Init ==
    /\ pc = "validate"
    /\ \E size \in TargetSizes : width = size[1] /\ height = size[2]
    /\ frameskip \in (-1)..MaxSkip
    /\ totalframes \in 0..MaxCap
    /\ buckets \in (-1)..MaxBuckets
    /\ use_palette \in BOOLEAN
    /\ \E size \in VideoSizes : video_width = size[1] /\ video_height = size[2]
    /\ video_frames \in 0..MaxFrames
    /\ Locals

\* -------------------------------------------------------------------- main
\* the argument checks; the video file may be missing
ValidateArgs ==
    /\ pc = "validate"
    /\ \E video_exists \in BOOLEAN :
          pc' = IF width <= 0 \/ height <= 0 \/ frameskip < 0 \/ ~video_exists
                THEN "error" ELSE "open"
    /\ UNCHANGED <<args, video, sampler, json_data, packer, output_written>>

\* ----------------------------------------------------------- process_video
OpenVideo ==
    /\ pc = "open"
    /\ \E opened \in BOOLEAN : pc' = IF opened THEN "loop" ELSE "error"
    /\ frames_data' = <<>>
    /\ frame_count' = 0
    /\ processed_count' = 0
    /\ UNCHANGED <<args, video, pixel_values, compressed_frame, progress, json_data,
                   packer, output_written>>

\* cap.read() returns ret = False
EndOfStream ==
    /\ pc = "loop"
    /\ frame_count >= video_frames
    /\ pc' = "build"
    /\ UNCHANGED <<args, video, sampler, json_data, packer, output_written>>

\* a frame was read, and the cap on exported frames is reached
CapBreak ==
    /\ pc = "loop"
    /\ frame_count < video_frames
    /\ CapReached(processed_count, totalframes)
    /\ pc' = "build"
    /\ UNCHANGED <<args, video, sampler, json_data, packer, output_written>>

\* a frame was read and is sampled, encoded and appended
ProcessFrame ==
    /\ pc = "loop"
    /\ frame_count < video_frames
    /\ ~CapReached(processed_count, totalframes)
    /\ IsSelected(frame_count, frameskip)
    /\ \E p \in Patterns :
          pixel_values' = SampleFrame(Frame(p, video_width, video_height), video_width,
                                      video_height, width, height, use_palette)
    /\ compressed_frame' = rle_encode_frame(pixel_values', use_palette)
    /\ frames_data' = frames_data \o compressed_frame'
    /\ processed_count' = processed_count + 1
    /\ progress' = Append(progress, frame_count + 1)
    /\ frame_count' = frame_count + 1
    /\ UNCHANGED <<pc, args, video, json_data, packer, output_written>>

\* a frame was read and is skipped
SkipFrame ==
    /\ pc = "loop"
    /\ frame_count < video_frames
    /\ ~CapReached(processed_count, totalframes)
    /\ ~IsSelected(frame_count, frameskip)
    /\ frame_count' = frame_count + 1
    /\ UNCHANGED <<pc, args, video, frames_data, processed_count, pixel_values,
                   compressed_frame, progress, json_data, packer, output_written>>

\* the value process_video returns
BuildJson ==
    /\ pc = "build"
    /\ json_data' = IF use_palette THEN JsonList(frames_data)
                    ELSE JsonDict(width, height, frames_data)
    /\ pc' = "bucket_init"
    /\ UNCHANGED <<args, video, sampler, packer, output_written>>

\* ------------------------------------------------------------ bucket packer
\* bucket_length = math.floor(len(json_data) / args.buckets): ZeroDivisionError for 0
BucketInit ==
    /\ pc = "bucket_init"
    /\ formatted_json_frames' = EmptyDoc
    /\ bucket_idx' = 0
    /\ current_bucket' = <<>>
    /\ idx' = 0
    /\ IF buckets = 0
       THEN pc' = "error" /\ UNCHANGED bucket_length
       ELSE pc' = "pack" /\ bucket_length' = PyFloorDiv(PyLen(json_data), buckets)
    /\ UNCHANGED <<args, video, sampler, json_data, output_written>>

\* one iteration of the loop over enumerate(json_data)
PackStep ==
    /\ pc = "pack"
    /\ idx < PyLen(json_data)
    /\ LET name == BucketName(bucket_idx)
           opened == IF name \in DOMAIN formatted_json_frames THEN formatted_json_frames
                     ELSE [k \in DOMAIN formatted_json_frames \cup {name} |->
                              IF k = name THEN <<>> ELSE formatted_json_frames[k]]
           bucket == Append(current_bucket, PyIter(json_data)[idx + 1])
       IN IF bucket_length = 0
          THEN \* idx % bucket_length raises ZeroDivisionError
               /\ pc' = "error"
               /\ formatted_json_frames' = opened
               /\ current_bucket' = bucket
               /\ UNCHANGED <<bucket_idx, idx>>
          ELSE /\ pc' = "pack"
               /\ idx' = idx + 1
               /\ IF IsBoundary(idx, bucket_length)
                  THEN /\ formatted_json_frames' = [opened EXCEPT ![name] = Join(bucket)]
                       /\ current_bucket' = <<>>
                       /\ bucket_idx' = bucket_idx + 1
                  ELSE /\ formatted_json_frames' = opened
                       /\ current_bucket' = bucket
                       /\ UNCHANGED bucket_idx
    /\ UNCHANGED <<args, video, sampler, json_data, bucket_length, output_written>>

\* json.dump(formatted_json_frames, f) after the loop
WriteOutput ==
    /\ pc = "pack"
    /\ idx >= PyLen(json_data)
    /\ output_written' = TRUE
    /\ pc' = "done"
    /\ UNCHANGED <<args, video, sampler, json_data, packer>>

Next ==
    \/ ValidateArgs
    \/ OpenVideo
    \/ EndOfStream
    \/ CapBreak
    \/ ProcessFrame
    \/ SkipFrame
    \/ BuildJson
    \/ BucketInit
    \/ PackStep
    \/ WriteOutput

Spec == Init /\ [][Next]_vars

\* ------------------------------------------- rle_encode_frame on its own
\* the Symbols of the stand-alone encoder runs: palette indices, or colours
RleIndices == { IntV(0), IntV(1), IntV(2) }

RleColors == { <<FloatV(0, 1), FloatV(0, 1), FloatV(0, 1)>>,
               <<FloatV(0, 1), FloatV(0, 1), FloatV(1, 1)>>,
               <<FloatV(1, 2), FloatV(1, 2), FloatV(1, 2)>> }

SeqsUpTo(S, n) == UNION { [1..k -> S] : k \in 0..n }

InitRLE ==
    /\ pc = "rle"
    /\ width = 1 /\ height = 1 /\ frameskip = 0 /\ totalframes = 0 /\ buckets = 1
    /\ video_width = 1 /\ video_height = 1 /\ video_frames = 0
    /\ use_palette \in BOOLEAN
    /\ pixel_values \in SeqsUpTo(IF use_palette THEN RleIndices ELSE RleColors, MaxRleLen)
    /\ frames_data = <<>>
    /\ frame_count = 0
    /\ processed_count = 0
    /\ compressed_frame = <<>>
    /\ progress = <<>>
    /\ json_data = JsonList(<<>>)
    /\ formatted_json_frames = EmptyDoc
    /\ bucket_length = 0
    /\ bucket_idx = 0
    /\ current_bucket = <<>>
    /\ idx = 0
    /\ output_written = FALSE

\* compressed_frame = rle_encode_frame(pixel_values, use_palette)
EncodeFrame ==
    /\ pc = "rle"
    /\ compressed_frame' = rle_encode_frame(pixel_values, use_palette)
    /\ pc' = "encoded"
    /\ UNCHANGED <<args, video, frames_data, frame_count, processed_count, pixel_values,
                   progress, json_data, packer, output_written>>

SpecRLE == InitRLE /\ [][EncodeFrame]_vars

\* ------------------------------------------------------- decoding, for claims
Stride(use_pal) == IF use_pal THEN 2 ELSE 4

RunValue(encoded, use_pal) ==
    IF use_pal THEN encoded[1] ELSE <<encoded[1], encoded[2], encoded[3]>>

RECURSIVE Expand(_, _)
\* read (value, count) pairs and repeat each value count times
Expand(encoded, use_pal) ==
    IF Len(encoded) < Stride(use_pal) THEN <<>>
    ELSE [k \in 1..encoded[Stride(use_pal)].n |-> RunValue(encoded, use_pal)]
            \o Expand(SubSeq(encoded, Stride(use_pal) + 1, Len(encoded)), use_pal)

RECURSIVE CountFrames(_, _, _, _)
\* the number of frames of cells Symbols each into which a stream of runs splits,
\* every run count being >= 1 and no run crossing a frame boundary; -1 when it does not
CountFrames(stream, stride, cells, remaining) ==
    IF stream = <<>> THEN (IF remaining = cells THEN 0 ELSE -1)
    ELSE IF Len(stream) < stride \/ cells = 0 THEN -1
    ELSE LET c == stream[stride]
             rest == SubSeq(stream, stride + 1, Len(stream))
         IN IF c.t # "int" \/ c.n < 1 \/ c.n > remaining THEN -1
            ELSE IF c.n = remaining
                 THEN LET r == CountFrames(rest, stride, cells, cells)
                      IN IF r < 0 THEN -1 ELSE r + 1
                 ELSE CountFrames(rest, stride, cells, remaining - c.n)

IsSuffix(a, b) == Len(a) <= Len(b) /\ SubSeq(b, Len(b) - Len(a) + 1, Len(b)) = a

DigitValue(c) == CHOOSE k \in 0..9 : DigitChar[k + 1] = c

RECURSIVE ParseInts(_, _, _)
\* the ints of a comma-joined text: acc is the number read so far, open whether
\* a number has begun
ParseInts(text, acc, open) ==
    IF text = <<>> THEN (IF open THEN <<IntV(acc)>> ELSE <<>>)
    ELSE IF Head(text) = ","
         THEN <<IntV(acc)>> \o ParseInts(Tail(text), 0, TRUE)
         ELSE ParseInts(Tail(text), acc * 10 + DigitValue(Head(text)), TRUE)

BucketValues(doc, k) ==
    IF BucketName(k) \in DOMAIN doc THEN ParseInts(doc[BucketName(k)], 0, FALSE) ELSE <<>>

RECURSIVE ConcatBuckets(_, _, _)
\* the values of buckets f(k), ..., f(last) in name order
ConcatBuckets(doc, k, last) ==
    IF k > last THEN <<>> ELSE BucketValues(doc, k) \o ConcatBuckets(doc, k + 1, last)

CeilDiv(a, b) == (a + b - 1) \div b

AfterLoop == {"build", "bucket_init", "pack", "done"}

\* ------------------------------------------------------------------ claims
\* C1: the bucket packer is lossless: once the document is written in palette
\* mode with 1 <= buckets <= len(GlobalStream), the values of buckets f0 ..
\* f(buckets-1), concatenated in name order, are the GlobalStream.
C1_Lossless ==
    (pc = "done" /\ use_palette /\ buckets >= 1 /\ buckets <= Len(frames_data))
        => ConcatBuckets(formatted_json_frames, 0, buckets - 1) = frames_data

\* C2: run-length round trip: expanding every (value, count) pair of the encoder's
\* output count times gives back the input sequence, and the empty sequence
\* encodes to the empty output.
C2_RoundTrip ==
    pc = "encoded" =>
        /\ Expand(compressed_frame, use_palette) = pixel_values
        /\ (pixel_values = <<>> => compressed_frame = <<>>)

C2_Witness ==
    /\ pc = "encoded"
    /\ ~use_palette
    /\ Len(pixel_values) = 3
    /\ pixel_values[1] = pixel_values[2]
    /\ pixel_values[3][1] = pixel_values[1][1]
    /\ pixel_values[3] # pixel_values[1]
    /\ Len(compressed_frame) = 8

\* the number of frames min(ceil(n / (frameskip + 1)), cap-or-unbounded) selects
\* out of n frames
SelectedOf(n) ==
    IF totalframes > 0 THEN Min(CeilDiv(n, frameskip + 1), totalframes)
    ELSE CeilDiv(n, frameskip + 1)

\* C3: frame selector: the frames sampled are the frames at the 0-based positions
\* that are multiples of frameskip + 1, in increasing order, cut off after
\* totalframes selections when totalframes > 0; the count never exceeds the cap,
\* and after the loop it is min(ceil(L / (S + 1)), M) (no min when M = 0).
C3_FrameSelector ==
    /\ Len(progress) = processed_count
    /\ \A k \in 1..Len(progress) : progress[k] = (k - 1) * (frameskip + 1) + 1
    /\ (totalframes > 0 => processed_count <= totalframes)
    /\ (pc = "loop" => processed_count = SelectedOf(frame_count))
    /\ (pc \in AfterLoop => processed_count = SelectedOf(video_frames))

C3_Witness ==
    /\ pc = "build"
    /\ frameskip = 1
    /\ totalframes = 2
    /\ video_frames = 3
    /\ progress = <<1, 3>>

\* C4: the GlobalStream is the concatenation of one encoded frame per selected
\* frame, the last one being the frame just encoded; in every encoded frame the run
\* counts are >= 1 and sum to width * height, so no run crosses a frame boundary.
C4_StreamShape ==
    /\ CountFrames(frames_data, Stride(use_palette), width * height, width * height)
          = processed_count
    /\ (processed_count > 0 =>
          /\ IsSuffix(compressed_frame, frames_data)
          /\ CountFrames(compressed_frame, Stride(use_palette), width * height,
                         width * height) = 1)

C4_Witness ==
    /\ processed_count = 2
    /\ use_palette
    /\ Len(compressed_frame) = 6
    /\ Len(frames_data) = 8

\* C5: rollover: with buckets >= 1 and bucket_length >= 1 the document never has a
\* key beyond f(buckets-1), and when it is written no value is left outside a bucket.
C5_Rollover ==
    (pc \in {"pack", "done"} /\ buckets >= 1 /\ bucket_length >= 1) =>
        /\ DOMAIN formatted_json_frames \subseteq { BucketName(k) : k \in 0..(buckets - 1) }
        /\ (pc = "done" => current_bucket = <<>>)

\* C6: document shape: without a palette the written document has exactly the
\* fields width, height and frames; with a palette it is the bucket mapping of the
\* GlobalStream.
C6_DocumentShape ==
    pc = "done" =>
        IF use_palette
        THEN /\ PyIter(json_data) = frames_data
             /\ DOMAIN formatted_json_frames \subseteq { BucketName(k) : k \in 0..Len(frames_data) }
        ELSE DOMAIN formatted_json_frames
                = { KeyChars("width"), KeyChars("height"), KeyChars("frames") }

\* C7: a source that opens but yields no frame ends the conversion in an error:
\* it never completes, and nothing is written.
C7_NoFrames ==
    video_frames = 0 => (pc # "done" /\ ~output_written)

\* C8: no Symbol is computed from a zero-area region: once a frame has been
\* sampled, every target cell's region has x_start < x_end and y_start < y_end.
C8_NoEmptyRegion ==
    processed_count > 0 =>
        /\ \A x \in 0..(width - 1) :
              RegionStart(x, video_width, width) < RegionEnd(x, video_width, width)
        /\ \A y \in 0..(height - 1) :
              RegionStart(y, video_height, height) < RegionEnd(y, video_height, height)

\* C9: a bucket count <= 0 is fatal: the conversion never completes and no
\* document is written.
C9_BucketCount ==
    buckets <= 0 => (pc # "done" /\ ~output_written)

\* the 1-based positions in the stream of the values of closed bucket f(k)
BucketFirst(k, blen) == IF k = 0 THEN 1 ELSE k * blen + 2

BucketLast(k, blen) == (k + 1) * blen + 1

\* C10: boundary layout: with bucket_length >= 1 a bucket is closed exactly at
\* the positive multiples of bucket_length, so f0 holds the elements at indices
\* 0..bucket_length and every later closed bucket f(k) those at indices
\* k*bucket_length+1 .. (k+1)*bucket_length.
C10_BoundaryLayout ==
    (pc \in {"pack", "done"} /\ bucket_length >= 1) =>
        /\ (idx >= 1 => bucket_idx = (idx - 1) \div bucket_length)
        /\ \A k \in 0..(bucket_idx - 1) :
              /\ BucketName(k) \in DOMAIN formatted_json_frames
              /\ formatted_json_frames[BucketName(k)]
                    = Join(SubSeq(PyIter(json_data), BucketFirst(k, bucket_length),
                                  BucketLast(k, bucket_length)))

C10_Witness ==
    /\ pc = "done"
    /\ use_palette
    /\ buckets = 3
    /\ Len(frames_data) = 10
    /\ bucket_idx = 3
    /\ formatted_json_frames[BucketName(0)] = <<"0", ",", "1", ",", "1", ",", "2">>

====
